---- MODULE Spec2Model ----
(***************************************************************************)
(* A model of src/unified_deep_sda/siamese_eegnet.py: the norm-constrained *)
(* convolution Conv2dWithConstraint, the SiameseEEGNet constructor with    *)
(* its sample forward pass, the two modes of SiameseEEGNet.forward and the *)
(* module-level shape helpers.                                             *)
(*                                                                         *)
(* A tensor is a record [err, shape, val].  shape is the tuple of its      *)
(* sizes, computed with the shape arithmetic of the layers.  val is a      *)
(* symbolic term: the input data token and, in the order the layers ran,   *)
(* every parameter, statistic and random mask the value was computed from. *)
(* Two tensors with the same term are the same function of the same        *)
(* arguments, so they are equal.  Filter norms are exact rationals         *)
(* <<num, den>>; floating-point rounding is not modelled.                  *)
(***************************************************************************)
EXTENDS Integers, Sequences, FiniteSets, TLC

VARIABLES phase, args, self, last, sq

vars == <<phase, args, self, last, sq>>

----------------------------------------------------------------------------
(* Bounds of the model *)

MaxChans == 2
MaxClasses == 3
MaxBatch == 2
MaxTime == 64
MaxKernel == 2
MaxFinalConv == 2
MaxTracked == 2
MaxData == 1
MaxMask == 1
MaxTheta == 0
MaxHalfNorms == 3
MaxDim == 3

(* Constants of the program *)

max_norm == 1
PoolEmbed == 4
SepKernel == 16
PoolSep == 8

----------------------------------------------------------------------------
(* Optional values: None / 'auto' is the empty tuple, a value v is <<v>> *)

None == <<>>

Some(v) == <<v>>

(* Tensors *)

Val0(d) == [data |-> d, theta |-> <<>>, w |-> <<>>, bn |-> <<>>,
            drop |-> <<>>, fn |-> <<>>]

Tensor(shape, val) == [err |-> "", shape |-> shape, val |-> val]

Error(kind) == [err |-> kind, shape |-> <<>>, val |-> Val0(0)]

Ok(x) == x.err = ""

----------------------------------------------------------------------------
(* Shape arithmetic of the tensor library's layers *)

\* nn.Conv2d, stride 1, dilation 1: one axis of the output
ConvOut(n, k, p) == n + 2 * p - k + 1

\* (mutant: ceil_mode=True)
PoolOut_ceil(n, k, s) == ((n - k + s - 1) \div s) + 1

\* nn.MaxPool2d / nn.AvgPool2d, no padding, floor mode: one axis of the output
PoolOut(n, k, s) == ((n - k) \div s) + 1

----------------------------------------------------------------------------
(* th.renorm(weight, p=2, dim=0, maxnorm): one filter (slice along dim 0), *)
(* given by its L2 norm num/den                                            *)

Exceeds(n, maxnorm) == n[1] > maxnorm * n[2]

\* (mutant: the norm is compared with twice the limit)
RenormFilter_threshold(n, maxnorm) ==
    IF Exceeds(n, 2 * maxnorm)
    THEN <<maxnorm * n[1] * 10000000, n[1] * 10000000 + n[2]>>
    ELSE n

\* (mutant: every filter is rescaled, also one within the limit)
RenormFilter_always(n, maxnorm) ==
    <<maxnorm * n[1] * 10000000, n[1] * 10000000 + n[2]>>

RenormFilter(n, maxnorm) ==
    IF Exceeds(n, maxnorm)
    THEN <<maxnorm * n[1] * 10000000, n[1] * 10000000 + n[2]>>
    ELSE n

renorm(weight, maxnorm) ==
    [f \in DOMAIN weight |-> RenormFilter(weight[f], maxnorm)]

----------------------------------------------------------------------------
(* Module-level helpers *)

_transpose_to_b_1_c_0(x) ==
    IF ~Ok(x) THEN x
    ELSE IF Len(x.shape) # 4 THEN Error("RuntimeError")
    ELSE Tensor(<<x.shape[1], x.shape[4], x.shape[2], x.shape[3]>>, x.val)

\* (mutant: the last two axes are not swapped)
_transpose_1_0_kept(x) ==
    IF ~Ok(x) THEN x
    ELSE IF Len(x.shape) # 4 THEN Error("RuntimeError")
    ELSE x

_transpose_1_0(x) ==
    IF ~Ok(x) THEN x
    ELSE IF Len(x.shape) # 4 THEN Error("RuntimeError")
    ELSE Tensor(<<x.shape[1], x.shape[2], x.shape[4], x.shape[3]>>, x.val)

\* (mutant: x.squeeze(), which removes every axis of size 1)
_squeeze_all(x) ==
    IF ~Ok(x) THEN x
    ELSE IF Len(x.shape) < 4 THEN Error("IndexError")
    ELSE IF x.shape[4] # 1 THEN Error("AssertionError")
    ELSE Tensor(SelectSeq(x.shape, LAMBDA n : n # 1), x.val)

_squeeze_final_output(x) ==
    IF ~Ok(x) THEN x
    ELSE IF Len(x.shape) < 4 THEN Error("IndexError")
    ELSE IF x.shape[4] # 1 THEN Error("AssertionError")
    ELSE IF x.shape[3] = 1 THEN Tensor(<<x.shape[1], x.shape[2]>>, x.val)
    ELSE Tensor(<<x.shape[1], x.shape[2], x.shape[3]>>, x.val)

----------------------------------------------------------------------------
(* Layers.  A layer maps p = [self, x, convs] to the same: the module      *)
(* state it leaves, its output (or the error that ended the pass) and the  *)
(* number of Conv2dWithConstraint.forward calls made so far.               *)

\* Expression(expression_fn): y is expression_fn applied to the input p.x
Expression(p, y) == [p EXCEPT !.x = y]

Conv2d(p, in_channels, out_channels, kh, kw, ph, pw) ==
    LET x == p.x IN
    IF ~Ok(x) THEN p
    ELSE IF \/ Len(x.shape) # 4
            \/ x.shape[2] # in_channels
            \/ ConvOut(x.shape[3], kh, ph) < 1
            \/ ConvOut(x.shape[4], kw, pw) < 1
         THEN [p EXCEPT !.x = Error("RuntimeError")]
    ELSE [p EXCEPT !.x = Tensor(
            <<x.shape[1], out_channels,
              ConvOut(x.shape[3], kh, ph), ConvOut(x.shape[4], kw, pw)>>,
            [x.val EXCEPT !.theta = Append(@, p.self.theta)])]

Conv2dWithConstraint(p, in_channels, out_channels, kh, kw) ==
    LET x == p.x IN
    IF ~Ok(x) THEN p
    ELSE
      LET weight == renorm(p.self.weight, max_norm)
          q == [p EXCEPT !.self.weight = weight, !.convs = @ + 1]
      IN
      IF \/ Len(x.shape) # 4
         \/ x.shape[2] # in_channels
         \/ ConvOut(x.shape[3], kh, 0) < 1
         \/ ConvOut(x.shape[4], kw, 0) < 1
      THEN [q EXCEPT !.x = Error("RuntimeError")]
      ELSE [q EXCEPT !.x = Tensor(
              <<x.shape[1], out_channels,
                ConvOut(x.shape[3], kh, 0), ConvOut(x.shape[4], kw, 0)>>,
              [x.val EXCEPT !.w = Append(@, weight)])]

\* (mutant: training mode normalises with the running statistics)
BatchNorm2d_running(p, i, num_features) ==
    LET x == p.x IN
    IF ~Ok(x) THEN p
    ELSE IF Len(x.shape) # 4 \/ x.shape[2] # num_features
         THEN [p EXCEPT !.x = Error("RuntimeError")]
    ELSE IF p.self.training
    THEN [p EXCEPT !.self.tracked[i] = @ + 1,
                   !.x.val.bn = Append(@, Some(p.self.tracked[i] + 1)),
                   !.x.val.theta = Append(@, p.self.theta)]
    ELSE [p EXCEPT !.x.val.bn = Append(@, Some(p.self.tracked[i])),
                   !.x.val.theta = Append(@, p.self.theta)]

\* nn.BatchNorm2d number i of the model, over num_features channels
BatchNorm2d(p, i, num_features) ==
    LET x == p.x IN
    IF ~Ok(x) THEN p
    ELSE IF Len(x.shape) # 4 \/ x.shape[2] # num_features
         THEN [p EXCEPT !.x = Error("RuntimeError")]
    ELSE IF p.self.training
    THEN IF x.shape[1] * x.shape[3] * x.shape[4] = 1
         THEN [p EXCEPT !.x = Error("ValueError")]
         ELSE [p EXCEPT !.self.tracked[i] = @ + 1,
                        !.x.val.bn = Append(@, None),
                        !.x.val.theta = Append(@, p.self.theta)]
    ELSE [p EXCEPT !.x.val.bn = Append(@, Some(p.self.tracked[i])),
                   !.x.val.theta = Append(@, p.self.theta)]

ELU(p) ==
    IF ~Ok(p.x) THEN p ELSE [p EXCEPT !.x.val.fn = Append(@, "elu")]

LogSoftmax(p) ==
    IF ~Ok(p.x) THEN p ELSE [p EXCEPT !.x.val.fn = Append(@, "logsoftmax")]

\* pool_class(kernel_size=(1, k), stride=(1, k))
pool_class(p, k) ==
    LET x == p.x IN
    IF ~Ok(x) THEN p
    ELSE IF Len(x.shape) # 4 \/ PoolOut(x.shape[4], k, k) < 1
         THEN [p EXCEPT !.x = Error("RuntimeError")]
    ELSE [p EXCEPT !.x = Tensor(
            <<x.shape[1], x.shape[2], x.shape[3], PoolOut(x.shape[4], k, k)>>,
            [x.val EXCEPT !.fn = Append(@, p.self.pool_mode)])]

\* nn.Dropout: the identity in evaluation mode, a random mask in training
Dropout(p, mask) ==
    IF ~Ok(p.x) \/ ~p.self.training THEN p
    ELSE [p EXCEPT !.x.val.drop = Append(@, mask)]

----------------------------------------------------------------------------
(* The three nn.Sequential parts of SiameseEEGNet *)

\* (mutant: no padding of the time axis)
TemporalConv_nopad(p) ==
    Conv2d(p, 1, p.self.F1, 1, p.self.kernel_length, 0, 0)

TemporalConv(p) ==
    Conv2d(p, 1, p.self.F1, 1, p.self.kernel_length,
           0, p.self.kernel_length \div 2)

SpatialConv(p) ==
    Conv2dWithConstraint(p, p.self.F1, p.self.F1 * p.self.D,
                         p.self.in_chans, 1)

embed(p) ==
    pool_class(
      ELU(
        BatchNorm2d(
          SpatialConv(
            BatchNorm2d(
              TemporalConv(Expression(p, _transpose_to_b_1_c_0(p.x))),
              1, p.self.F1)),
          2, p.self.F1 * p.self.D)),
      PoolEmbed)

\* (mutant: the depthwise convolution pads by (16 - 1) // 2)
sep_conv_samepad(p, mask) ==
    pool_class(
      ELU(
        BatchNorm2d(
          Conv2d(
            Conv2d(Dropout(p, mask),
                   p.self.F1 * p.self.D, p.self.F1 * p.self.D,
                   1, SepKernel, 0, (SepKernel - 1) \div 2),
            p.self.F1 * p.self.D, p.self.F2, 1, 1, 0, 0),
          3, p.self.F2)),
      PoolSep)

sep_conv(p, mask) ==
    pool_class(
      ELU(
        BatchNorm2d(
          Conv2d(
            Conv2d(Dropout(p, mask),
                   p.self.F1 * p.self.D, p.self.F1 * p.self.D,
                   1, SepKernel, 0, SepKernel \div 2),
            p.self.F1 * p.self.D, p.self.F2, 1, 1, 0, 0),
          3, p.self.F2)),
      PoolSep)

ClsConv(p) ==
    Conv2d(p, p.self.F2, p.self.n_classes,
           p.self.n_out_virtual_chans, p.self.final_conv_length[1], 0, 0)

cls(p, mask) ==
    LET q == LogSoftmax(ClsConv(Dropout(p, mask)))
        r == Expression(q, _transpose_1_0(q.x))
    IN Expression(r, _squeeze_final_output(r.x))

----------------------------------------------------------------------------
(* SiameseEEGNet.__init__ *)

\* np_to_var(np.ones((1, in_chans, input_time_length, 1)))
SampleInput(a) ==
    Tensor(<<1, a.in_chans, a.input_time_length[1], 1>>, Val0(0))

\* self.__dict__.update(locals()), with the parameters of the freshly built
\* layers: default-initialised weights, untouched running statistics,
\* training mode
Locals(a, w0) ==
    [in_chans |-> a.in_chans, n_classes |-> a.n_classes,
     final_conv_length |-> a.final_conv_length,
     input_time_length |-> a.input_time_length,
     pool_mode |-> a.pool_mode, F1 |-> a.F1, D |-> a.D, F2 |-> a.F2,
     kernel_length |-> a.kernel_length,
     n_out_virtual_chans |-> 0,
     weight |-> w0, theta |-> 0, tracked |-> <<0, 0, 0>>, training |-> TRUE]

\* self.apply(glorot_weight_zero_bias): fresh random weights
glorot_weight_zero_bias(s, w1, th1) ==
    [s EXCEPT !.weight = w1, !.theta = th1]

\* The constructor: [err, self].  mask is the dropout mask of the sample pass.
__init__(a, w0, w1, th1, mask) ==
    IF a.final_conv_length = None /\ a.input_time_length = None
    THEN [err |-> "AssertionError", self |-> None]
    ELSE IF a.pool_mode \notin {"max", "mean"}
    THEN [err |-> "KeyError", self |-> None]
    ELSE IF a.input_time_length = None
    THEN [err |-> "TypeError", self |-> None]
    ELSE
      LET out == sep_conv(embed([self |-> Locals(a, w0),
                                 x |-> SampleInput(a), convs |-> 0]), mask)
      IN
      IF ~Ok(out.x) THEN [err |-> out.x.err, self |-> None]
      ELSE
        LET n_out_virtual_chans == out.x.shape[3]
            n_out_time == out.x.shape[4]
            s == [out.self EXCEPT
                    !.n_out_virtual_chans = n_out_virtual_chans,
                    !.final_conv_length =
                        IF a.final_conv_length = None
                        THEN Some(n_out_time) ELSE @]
        IN [err |-> "", self |-> glorot_weight_zero_bias(s, w1, th1)]

----------------------------------------------------------------------------
(* SiameseEEGNet.forward *)

\* x[:, i, :, :, None] of a joint input of shape (B, streams, C, T)
Stream(x, i) ==
    IF Len(x.shape) # 4 \/ x.shape[2] < i THEN Error("IndexError")
    ELSE Tensor(<<x.shape[1], x.shape[3], x.shape[4], 1>>, Val0(x.data[i]))

forward_finetune(s, x, m1, m2) ==
    LET p == cls(sep_conv(embed([self |-> s,
                                 x |-> Tensor(x.shape, Val0(x.data[1])),
                                 convs |-> 0]), m1), m2)
    IN [self |-> p.self, ret |-> p.x, convs |-> p.convs]

\* (mutant: the commented-out choice by setname)
ClsStream_bysetname(setname, target_embedding, source_embedding) ==
    IF setname = "test" THEN target_embedding ELSE source_embedding

\* the stream the classification entry of the joint mode is computed from
ClsStream(setname, target_embedding, source_embedding) == target_embedding

forward_joint(s, x, setname, m1, m2) ==
    LET pt == embed([self |-> s, x |-> Stream(x, 1), convs |-> 0])
        ps == IF Ok(pt.x) THEN embed([pt EXCEPT !.x = Stream(x, 2)]) ELSE pt
        pc == IF Ok(ps.x)
              THEN cls(sep_conv([ps EXCEPT !.x = ClsStream(setname, pt.x, ps.x)],
                                m1), m2)
              ELSE ps
    IN [self |-> pc.self,
        ret |-> IF Ok(pc.x)
                THEN [target_embedding |-> pt.x, source_embedding |-> ps.x,
                      source_cls |-> pc.x]
                ELSE pc.x,
        convs |-> pc.convs]

forward(s, x, setname, target_finetune_cls, m1, m2) ==
    IF target_finetune_cls THEN forward_finetune(s, x, m1, m2)
    ELSE forward_joint(s, x, setname, m1, m2)

----------------------------------------------------------------------------
(* Input domains *)

Optional(S) == {None} \cup {Some(v) : v \in S}

\* spatial-filter weights: every filter's norm is k/2 for a k in Ks
Weights(n, Ks) == [1..n -> {<<k, 2>> : k \in Ks}]

ArgSet(chans, classes, fcls, itls, pools, filters, kernels) ==
    {[in_chans |-> c, n_classes |-> n, final_conv_length |-> f,
      input_time_length |-> t, pool_mode |-> pm,
      F1 |-> fl.F1, D |-> fl.D, F2 |-> fl.F2, kernel_length |-> k] :
        c \in chans, n \in classes, f \in fcls, t \in itls, pm \in pools,
        fl \in filters, k \in kernels}

\* the defaults of the constructor
DefaultFilters == [F1 |-> 8, D |-> 2, F2 |-> 16]

DefaultKernel == 64

\* time lengths next to the multiples of the first pooling stride
TimeLengths ==
    {t \in 1..MaxTime : t % (PoolEmbed * PoolSep) \in
        {PoolEmbed - 1, PoolEmbed * (PoolSep - 1) - 1, PoolEmbed * (PoolSep - 1)}}

\* The domain of the shape checks: many configurations and input shapes,
\* one value each of the data, the weights and the random draws
ShapeDom ==
    [args |-> ArgSet({MaxChans}, {MaxClasses}, Optional(1..MaxFinalConv),
                     Optional(TimeLengths), {"mean", "sum"},
                     {[F1 |-> 2, D |-> 2, F2 |-> 3]}, 1..MaxKernel)
              \cup ArgSet({1}, {MaxClasses}, {None}, {Some(MaxTime - 1)},
                          {"max"}, {DefaultFilters}, {DefaultKernel}),
     norms |-> {1}, thetas |-> {0}, masks |-> {1}, data |-> {0},
     setnames |-> {"train"}, modes |-> {TRUE},
     batch |-> 1..MaxBatch, chans |-> 1..(MaxChans + 1),
     time |-> TimeLengths]

\* The domain of the value checks: few configurations and input shapes,
\* several values of the data, the weights and the random draws
ValueDom ==
    [args |-> ArgSet({1}, {MaxClasses}, {None}, {Some(31)}, {"mean"},
                     {[F1 |-> 1, D |-> 2, F2 |-> 2]}, {MaxKernel}),
     norms |-> 1..MaxHalfNorms, thetas |-> 0..MaxTheta, masks |-> 1..MaxMask,
     data |-> 0..MaxData, setnames |-> {"train", "test"},
     modes |-> BOOLEAN,
     batch |-> {1}, chans |-> {1}, time |-> {31}]

----------------------------------------------------------------------------
(* State *)

NoCall == [op |-> "none"]

Init ==
    /\ phase = "new"
    /\ args = None
    /\ self = None
    /\ last = NoCall
    /\ sq = None

\* SiameseEEGNet(...)
Construct(dom) ==
    /\ phase = "new"
    /\ \E a \in dom.args :
       \E w0, w1 \in Weights(a.F1 * a.D, dom.norms) :
       \E th1 \in dom.thetas, mask \in dom.masks :
         \E r \in {__init__(a, w0, w1, th1, mask)} :
         /\ args' = a
         /\ phase' = IF r.err = "" THEN "ready" ELSE "failed"
         /\ self' = r.self
         /\ last' = [op |-> "construct", err |-> r.err]
    /\ UNCHANGED sq

\* the dropout masks a forward pass draws: none in evaluation mode
Draws(dom) == IF self.training THEN dom.masks ELSE {0}

\* model(x, setname, target_finetune_cls=True), x of shape (B, C, T, 1)
ForwardFinetune(dom) ==
    /\ phase = "ready"
    /\ self.training => self.tracked[1] < MaxTracked
    /\ \E b \in dom.batch, c \in dom.chans, t \in dom.time, d \in dom.data,
          setname \in dom.setnames, m1, m2 \in Draws(dom) :
         LET x == [shape |-> <<b, c, t, 1>>, data |-> <<d>>] IN
         \E r \in {forward(self, x, setname, TRUE, m1, m2)} :
         /\ self' = r.self
         /\ last' = [op |-> "finetune", x |-> x, setname |-> setname,
                     rng |-> <<m1, m2>>,
                     pre |-> self, convs |-> r.convs, ret |-> r.ret]
    /\ UNCHANGED <<phase, args, sq>>

\* model(x, setname), x of shape (B, 2, C, T)
ForwardJoint(dom) ==
    /\ phase = "ready"
    /\ self.training => self.tracked[1] < MaxTracked
    /\ \E b \in dom.batch, c \in dom.chans, t \in dom.time,
          d0, d1 \in dom.data, setname \in dom.setnames,
          m1, m2 \in Draws(dom) :
         LET x == [shape |-> <<b, 2, c, t>>, data |-> <<d0, d1>>] IN
         \E r \in {forward(self, x, setname, FALSE, m1, m2)} :
         /\ self' = r.self
         /\ last' = [op |-> "joint", x |-> x, setname |-> setname,
                     rng |-> <<m1, m2>>,
                     pre |-> self, convs |-> r.convs, ret |-> r.ret]
    /\ UNCHANGED <<phase, args, sq>>

\* model.train() / model.eval()
SetTraining(dom) ==
    /\ phase = "ready"
    /\ \E mode \in dom.modes :
         /\ mode # self.training
         /\ self' = [self EXCEPT !.training = mode]
    /\ last' = [op |-> "mode"]
    /\ UNCHANGED <<phase, args, sq>>

\* an update of the parameters by the training harness
OptimizerStep(dom) ==
    /\ phase = "ready"
    /\ \E w \in Weights(self.F1 * self.D, dom.norms), th \in dom.thetas :
         self' = [self EXCEPT !.weight = w, !.theta = th]
    /\ last' = [op |-> "step"]
    /\ UNCHANGED <<phase, args, sq>>

\* _squeeze_final_output(x) on any 4-D tensor
SqueezeCall ==
    /\ \E s \in [1..4 -> 0..MaxDim], d \in 0..MaxData :
         LET x == Tensor(s, Val0(d)) IN
         sq' = [x |-> x, ret |-> _squeeze_final_output(x)]
    /\ UNCHANGED <<phase, args, self, last>>

NextShape ==
    \/ Construct(ShapeDom)
    \/ ForwardFinetune(ShapeDom)
    \/ ForwardJoint(ShapeDom)

NextValue ==
    \/ Construct(ValueDom)
    \/ ForwardFinetune(ValueDom)
    \/ ForwardJoint(ValueDom)
    \/ SetTraining(ValueDom)
    \/ OptimizerStep(ValueDom)

Spec == Init /\ [][NextShape]_vars

SpecValue == Init /\ [][NextValue]_vars

SpecSqueeze == Init /\ [][SqueezeCall]_vars

----------------------------------------------------------------------------
(* Properties *)

Forwarded == last.op \in {"finetune", "joint"}

JointKeys == {"target_embedding", "source_embedding", "source_cls"}

JointReturned == last.op = "joint" /\ DOMAIN last.ret = JointKeys

FinetuneReturned == last.op = "finetune" /\ Ok(last.ret)

AutoLength == args.final_conv_length = None

\* floor((T + 2*floor(kernel_length/2) - kernel_length + 1) / 4)
EmbedTime(T, K) == (T + 2 * (K \div 2) - K + 1) \div 4

\* floor((T2 + 1) / 8)
SepTime(T2) == (T2 + 1) \div 8

WithinNorm(n) == n[1] <= max_norm * n[2]

\* C1 as stated: every fine-tuning forward pass that returns, returns a
\* tensor of shape (B, n_classes), whatever the time length of the input.
C1_AlwaysBatchByClasses ==
    FinetuneReturned =>
        last.ret.shape = <<last.x.shape[1], self.n_classes>>

\* C1 as amended: a fine-tuning forward pass on T samples that returns,
\* returns shape (B, n_classes) exactly when floor((T2 + 1) / 8), the time
\* length left after sep_conv, equals final_conv_length; when it is larger
\* the result keeps a time axis: (B, n_classes, floor((T2+1)/8) -
\* final_conv_length + 1).
C1_ShapeOfFinetune ==
    FinetuneReturned =>
        LET B == last.x.shape[1]
            W3 == SepTime(EmbedTime(last.x.shape[3], self.kernel_length))
            L == self.final_conv_length[1]
        IN /\ W3 >= L
           /\ last.ret.shape =
                IF W3 = L THEN <<B, self.n_classes>>
                ELSE <<B, self.n_classes, W3 - L + 1>>

C1_Witness ==
    /\ FinetuneReturned
    /\ last.x.shape[3] # args.input_time_length[1]
    /\ Len(last.ret.shape) = 3

\* C2: in the joint mode the two returned embeddings have the same shape,
\* (B, F1*D, 1, floor((T + 2*floor(kernel_length/2) - kernel_length + 1)/4)).
C2_EmbeddingShapes ==
    JointReturned =>
        /\ last.ret.target_embedding.shape = last.ret.source_embedding.shape
        /\ last.ret.target_embedding.shape =
             <<last.x.shape[1], self.F1 * self.D, 1,
               EmbedTime(last.x.shape[4], self.kernel_length)>>

C2_Witness ==
    /\ JointReturned
    /\ last.x.shape[4] # args.input_time_length[1]
    /\ self.kernel_length = 1

\* C3: construction fails if and only if final_conv_length is 'auto' and
\* input_time_length is None; with an explicit final_conv_length and no
\* input_time_length it completes.
C3_OnlyErrorPath ==
    (phase # "new" /\ args.pool_mode \in {"max", "mean"}
                   /\ args.input_time_length = None) =>
        (phase = "failed" <=> AutoLength)

C5_NormConstraint ==
    (Forwarded /\ last.convs > 0) =>
        /\ \A f \in DOMAIN self.weight :
             /\ WithinNorm(self.weight[f])
             /\ WithinNorm(last.pre.weight[f]) =>
                  self.weight[f] = last.pre.weight[f]
        /\ FinetuneReturned =>
             \A i \in DOMAIN last.ret.val.w :
               \A f \in DOMAIN last.ret.val.w[i] :
                 WithinNorm(last.ret.val.w[i][f])
        /\ JointReturned =>
             \A k \in JointKeys :
               \A i \in DOMAIN last.ret[k].val.w :
                 \A f \in DOMAIN last.ret[k].val.w[i] :
                   WithinNorm(last.ret[k].val.w[i][f])

C5_Witness ==
    /\ Forwarded /\ last.convs > 0
    /\ \E f \in DOMAIN self.weight : ~WithinNorm(last.pre.weight[f])
    /\ \E f \in DOMAIN self.weight :
         /\ WithinNorm(last.pre.weight[f])
         /\ last.pre.weight[f][1] < max_norm * last.pre.weight[f][2]

\* C6: a joint forward pass whose two streams are equal returns equal
\* embeddings, in training and in evaluation mode, although embedding the
\* target stream changed the stored weights and the running statistics.
C6_SameEmbedding ==
    (JointReturned /\ last.x.data[1] = last.x.data[2]) =>
        last.ret.target_embedding = last.ret.source_embedding

C6_Witness ==
    /\ JointReturned /\ last.x.data[1] = last.x.data[2]
    /\ last.pre.training
    /\ last.pre.weight # self.weight
    /\ last.pre.tracked # self.tracked

\* C7: a joint forward pass that returns, returns exactly the keys
\* target_embedding, source_embedding and source_cls, and source_cls is
\* what the same call returns for any other setname and any other source
\* stream: it is computed from the target stream alone.
C7_ClsFromTarget ==
    last.op = "joint" =>
        /\ DOMAIN last.ret = JointKeys \/ ~Ok(last.ret)
        /\ JointReturned =>
             \A d \in ValueDom.data, setname \in ValueDom.setnames :
               LET other == forward(last.pre,
                                    [last.x EXCEPT !.data[2] = d], setname,
                                    FALSE, last.rng[1], last.rng[2]).ret
               IN /\ DOMAIN other = JointKeys
                  /\ other.source_cls = last.ret.source_cls
                  /\ other.source_cls.val.data = last.x.data[1]

C7_Witness ==
    /\ JointReturned
    /\ last.x.data[1] # last.x.data[2]
    /\ last.setname = "train"

\* C9: the assertion of _squeeze_final_output never fails in a forward
\* pass (either mode) on an input with in_chans channels.
C9_AssertionHolds ==
    (Forwarded /\ last.x.shape[IF last.op = "joint" THEN 3 ELSE 2]
                    = self.in_chans) =>
        (DOMAIN last.ret = JointKeys \/ last.ret.err # "AssertionError")

C9_Witness ==
    /\ FinetuneReturned
    /\ last.x.shape[2] = self.in_chans
    /\ self.in_chans > 1
    /\ Len(last.ret.shape) = 3

\* C10: a forward pass changes the stored weights only if a filter's norm
\* exceeded max_norm; the weights it leaves are a fixed point of the
\* renormalisation, so the next pass leaves them unchanged (as the second
\* embedding of a joint pass does); in evaluation mode the same call,
\* repeated, returns the same output and leaves the same state.
C10_Idempotent ==
    Forwarded =>
        /\ self.weight # last.pre.weight =>
             \E f \in DOMAIN self.weight : ~WithinNorm(last.pre.weight[f])
        /\ last.convs > 0 => renorm(self.weight, max_norm) = self.weight
        /\ JointReturned =>
             /\ last.ret.source_embedding.val.w = last.ret.target_embedding.val.w
             /\ last.ret.source_embedding.val.w = <<self.weight>>
        /\ ~self.training =>
             LET again == forward(self, last.x, last.setname,
                                  last.op = "finetune", 0, 0)
             IN /\ again.ret = last.ret
                /\ again.self = self

C10_Witness ==
    /\ Forwarded /\ ~self.training
    /\ self.weight # last.pre.weight
    /\ last.op = "finetune" /\ Ok(last.ret)

\* C8: _squeeze_final_output on a tensor of shape (B, N, W, 1) returns
\* shape (B, N) when W = 1 and (B, N, W) when W > 1, also for B = 1 and
\* N = 1; when the last axis is not 1 it fails its assertion.
C8_Squeeze ==
    sq # None =>
        LET s == sq.x.shape IN
        /\ (s[4] = 1 /\ s[3] = 1) =>
              (Ok(sq.ret) /\ sq.ret.shape = <<s[1], s[2]>>)
        /\ (s[4] = 1 /\ s[3] > 1) =>
              (Ok(sq.ret) /\ sq.ret.shape = <<s[1], s[2], s[3]>>)
        /\ s[4] # 1 => sq.ret.err = "AssertionError"
        /\ Ok(sq.ret) => sq.ret.val = sq.x.val

C8_Witness ==
    /\ sq # None
    /\ sq.x.shape = <<1, 1, 1, 1>>
    /\ sq.ret.shape = <<1, 1>>

====
